---- MODULE Spec2Model ----
(***************************************************************************)
(* Model of backend_api/app/main.py: the start-up loading of the two       *)
(* classification pipelines, the score normaliser get_fake_probability,    *)
(* the Prism heuristics and the /scan-image/ handler scan_image with the   *)
(* temporary file it writes, reads and removes.                            *)
(*                                                                         *)
(* Numbers.  A score in [0,1] is an integer number of 1/Scale steps; Python*)
(* floats are modelled by these exact rationals.  final_score and          *)
(* display_score are percentages counted in steps of 100/(2*Scale), so     *)
(* that the halves of the weighted average stay exact: 100% is 2*Scale,    *)
(* 50% is Scale.  A formatted "{:.2f}%" string is the integer number of    *)
(* hundredths of a percent it prints.                                      *)
(*                                                                         *)
(* Text.  A label is a sequence of one-character strings, so that          *)
(* str.lower() is computed character by character.  A report or log line   *)
(* is named by a tag.                                                      *)
(***************************************************************************)
EXTENDS Integers, Sequences, FiniteSets, TLC

\* ------------------------------------------------------------------ bounds

\* Score resolution: Scale = 10 * Res steps between 0.0 and 1.0.
Res == 6
\* Longest prediction sequence handed to get_fake_probability on its own.
MaxPreds == 3
\* Number of requests that may be in flight together (worker processes).
NumReq == 2

Scale == 10 * Res
One == Scale
Half == Scale \div 2

\* ------------------------------------------------------------------ labels

LowerChar(c) ==
    CASE c = "A" -> "a" [] c = "B" -> "b" [] c = "C" -> "c" [] c = "D" -> "d"
      [] c = "E" -> "e" [] c = "F" -> "f" [] c = "G" -> "g" [] c = "H" -> "h"
      [] c = "I" -> "i" [] c = "J" -> "j" [] c = "K" -> "k" [] c = "L" -> "l"
      [] c = "M" -> "m" [] c = "N" -> "n" [] c = "O" -> "o" [] c = "P" -> "p"
      [] c = "Q" -> "q" [] c = "R" -> "r" [] c = "S" -> "s" [] c = "T" -> "t"
      [] c = "U" -> "u" [] c = "V" -> "v" [] c = "W" -> "w" [] c = "X" -> "x"
      [] c = "Y" -> "y" [] c = "Z" -> "z" [] OTHER -> c

\* str.lower()
lower(label) == [i \in 1..Len(label) |-> LowerChar(label[i])]

FAKE_LABELS ==
    { <<"f","a","k","e">>,
      <<"d","e","e","p","f","a","k","e">>,
      <<"a","r","t","i","f","i","c","i","a","l">>,
      <<"l","a","b","e","l","_","0">>,
      <<"a","i">> }

REAL_LABELS ==
    { <<"r","e","a","l">>,
      <<"n","a","t","u","r","a","l">>,
      <<"l","a","b","e","l","_","1">>,
      <<"h","u","m","a","n">> }

\* ------------------------------------------------- get_fake_probability

\* A faulty variant of the fallback: an unknown answer counts as certainly fake.
FallbackScore_One == One

\* return 0.5  # Unknown labels fallback
FallbackScore == Half

\* The for loop: one pass over the predictions, each recognised pair
\* overwriting its accumulator.
RECURSIVE ScanPredictions(_, _, _)
ScanPredictions(preds, fake_score, real_score) ==
    IF preds = <<>>
    THEN [fake_score |-> fake_score, real_score |-> real_score]
    ELSE LET label == lower(Head(preds).label)
             score == Head(preds).score
         IN  IF label \in FAKE_LABELS
             THEN ScanPredictions(Tail(preds), score, real_score)
             ELSE IF label \in REAL_LABELS
                  THEN ScanPredictions(Tail(preds), fake_score, score)
                  ELSE ScanPredictions(Tail(preds), fake_score, real_score)

\* A faulty variant: the real score is looked at before the fake score.
get_fake_probability_RealFirst(predictions) ==
    LET acc == ScanPredictions(predictions, 0, 0)
    IN  IF acc.real_score > 0 THEN One - acc.real_score
        ELSE IF acc.fake_score > 0 THEN acc.fake_score
        ELSE FallbackScore

\* A faulty variant: the real score is returned as it is, not its complement.
get_fake_probability_NoComplement(predictions) ==
    LET acc == ScanPredictions(predictions, 0, 0)
    IN  IF acc.fake_score > 0 THEN acc.fake_score
        ELSE IF acc.real_score > 0 THEN acc.real_score
        ELSE FallbackScore

get_fake_probability(predictions) ==
    LET acc == ScanPredictions(predictions, 0, 0)
    IN  IF acc.fake_score > 0 THEN acc.fake_score
        ELSE IF acc.real_score > 0 THEN One - acc.real_score
        ELSE FallbackScore

\* ------------------------------------------------------ files and images

\* What a path of the working directory holds.  An image file is described
\* by what the collaborators compute from its bytes: the two pipelines'
\* predictions, its EXIF block, whether it can be re-saved as JPEG and the
\* largest channel difference of that re-save, and whether it shows a face.
NoFile == [kind |-> "none"]
EmptyFile == [kind |-> "empty"]
\* The bytes left by a copy that stopped part-way.
PartialFile == [kind |-> "partial"]
\* The bytes left by two copies written through two handles of one path.
MixedFile == [kind |-> "mixed"]
\* An upload that is no image.
CorruptFile == [kind |-> "corrupt"]

IsImage(content) == content.kind = "image"

Pred(label, score) == [label |-> label, score |-> score]

ImageFile(swap, gen, exif, jpeg_ok, max_diff, face) ==
    [kind |-> "image", swap |-> swap, gen |-> gen, exif |-> exif,
     jpeg_ok |-> jpeg_ok, max_diff |-> max_diff, face |-> face]

\* ------------------------------------------------------------- PrismAgent

\* if max_diff > 15
ELA_THRESHOLD == 15

scan_metadata(image) ==
    CASE image.exif = "none" -> << "Metadata: Clean/Stripped" >>
      [] image.exif = "edited" -> << "METADATA FLAG: Editing software detected" >>
      [] image.exif = "plain" -> << "Metadata: Present but no obvious editing software found." >>
      [] OTHER -> << "Metadata: Could not parse." >>

scan_ela(image) ==
    IF ~image.jpeg_ok
    THEN << "Forensics: ELA Scan failed." >>
    ELSE IF image.max_diff > ELA_THRESHOLD
         THEN << "FORENSIC FLAG: High compression anomaly" >>
         ELSE << "Forensics: Compression levels look natural" >>

\* engine is the scanner that answers this call: "mediapipe", "opencv" when
\* MediaPipe raised and the Haar cascade took over, "none" when both raised.
\* onDisk is what cv2.imread finds at image_path.
scan_face_geometry(available, engine, onDisk) ==
    IF ~available THEN << >>
    ELSE IF engine = "none" THEN << >>
    ELSE IF ~IsImage(onDisk) THEN << >>
    ELSE IF engine = "mediapipe"
         THEN IF onDisk.face
              THEN << "Geometry: Face structure verified" >>
              ELSE << "GEOMETRY FLAG: No human face detected" >>
         ELSE IF onDisk.face
              THEN << "Geometry: Face spatial boundaries verified (OpenCV Backup Scanner)" >>
              ELSE << "GEOMETRY FLAG: No face detected (OpenCV Backup Scanner)" >>

\* ---------------------------------------------------------- verdict logic

\* A percentage p as a final_score value.
Percent(p) == (p * 2 * Scale) \div 100

Max2(a, b) == IF a >= b THEN a ELSE b

\* score > 0.9
HighConfidence(score) == 10 * score > 9 * Scale

\* A faulty variant: the override is lost and the scores are always blended.
EnsembleScore_AlwaysBlend(swap, gen) == swap + gen

\* if score_swap > 0.9 or score_gen > 0.9: max(...) * 100
\* else: ((score_swap * 0.5) + (score_gen * 0.5)) * 100
EnsembleScore(swap, gen) ==
    IF HighConfidence(swap) \/ HighConfidence(gen)
    THEN 2 * Max2(swap, gen)
    ELSE swap + gen

\* A faulty variant: exactly 50 counts as FAKE.
VerdictOf_AtLeast(final) == IF final >= Percent(50) THEN "FAKE" ELSE "REAL"

\* verdict = "FAKE" if final_score > 50 else "REAL"
VerdictOf(final) == IF final > Percent(50) THEN "FAKE" ELSE "REAL"

\* A faulty variant: the residual risk is shown under REAL too.
DisplayScore_NoInversion(final, v) == final

\* display_score = final_score; if verdict == "REAL": 100 - final_score
DisplayScore(final, v) == IF v = "REAL" THEN Percent(100) - final ELSE final

\* f"{display_score:.2f}%": the number of hundredths of a percent printed,
\* the nearest one, a tie going to the even one.
Format2f(x) ==
    LET num == x * 10000
        den == 2 * Scale
        q   == num \div den
        rem == num % den
    IN  IF 2 * rem > den THEN q + 1
        ELSE IF 2 * rem = den THEN q + (q % 2)
        ELSE q

\* The headlines of the report.
Headlines(v, swap, gen) ==
    IF v = "FAKE"
    THEN (IF HighConfidence(swap)
          THEN << "CRITICAL: Vigilante-V2 detected distinct Face Swap artifacts" >>
          ELSE << >>)
         \o
         (IF HighConfidence(gen)
          THEN << "CRITICAL: Sentinel-X detected AI Generative textures" >>
          ELSE << >>)
    ELSE << "CLEAN: AI models found no manipulation traces." >>

\* f"• {log}": a line of the report is the bullet and the text after it.
Bullet(line) == << "bullet", line >>

Bulleted(lines) == [i \in 1..Len(lines) |-> Bullet(lines[i])]

\* The response of a scan that went through.
ScanResponse(v, display, lines) ==
    [verdict |-> v, confidence_score |-> Format2f(display), analysis |-> lines]

\* The key the ERROR response does not carry.
NoScore == 0 - 1

\* {"verdict": "ERROR", "analysis": str(e)}
ErrorResponse(message) ==
    [verdict |-> "ERROR", confidence_score |-> NoScore, analysis |-> << message >>]

NoResponse == [verdict |-> "NONE", confidence_score |-> NoScore, analysis |-> << >>]

\* ------------------------------------------------------------------ state

VARIABLES
    \* module level
    main_pc,              \* where the import of main.py stands
    detector_swap,        \* "unbound", "pipeline" or "None"
    detector_gen,
    load_failed,          \* which pipeline(...) call raised: "none", "swap", "gen"
    MEDIAPIPE_AVAILABLE,
    \* the working directory: temp path -> content
    fs,
    \* scan_image, one invocation per request slot
    pc,
    filename,             \* file.filename
    upload,               \* the bytes of file.file
    created,              \* this invocation's open(temp_filename, "wb") went through
    image,
    preds_swap,
    preds_gen,
    score_swap,
    score_gen,
    prism_logs,
    final_score,
    verdict,
    display_score,
    report_lines,
    response,             \* what the handler returns
    outcome,              \* "pending", "returned", or "raised": an exception left the handler
    \* get_fake_probability called on its own
    predictions,
    norm_pc,
    norm_result

moduleVars == << main_pc, detector_swap, detector_gen, load_failed, MEDIAPIPE_AVAILABLE >>
localVars == << image, preds_swap, preds_gen, score_swap, score_gen, prism_logs,
                final_score, verdict, display_score, report_lines >>
requestVars == << pc, filename, upload, created, localVars, response, outcome >>
normVars == << predictions, norm_pc, norm_result >>
vars == << moduleVars, fs, requestVars, normVars >>

Req == 1..NumReq

Filenames == { "a.png", "b.png" }

\* temp_filename = f"temp_{file.filename}"
temp_filename(name) == << "temp_", name >>

TempPaths == { temp_filename(n) : n \in Filenames }

\* ----------------------------------------------------------------- inputs

Fake == << "F","a","k","e" >>
Real == << "R","e","a","l" >>
Cat  == << "c","a","t" >>

Nine == (9 * Scale) \div 10

\* Scores around the 0.9 and 0.5 thresholds and at the ends of [0,1].
GridScores ==
    { 0, 1, Scale \div 5, (3 * Scale) \div 10, (4 * Scale) \div 10, Half - 1, Half,
      (6 * Scale) \div 10, Nine - 1, Nine, Nine + 1, One }

\* What a two-class pipeline answers: both classes, the likelier first.
TwoClass(s) ==
    IF 2 * s >= One
    THEN << Pred(Fake, s), Pred(Real, One - s) >>
    ELSE << Pred(Real, One - s), Pred(Fake, s) >>

ModelOutputs ==
    { TwoClass(s) : s \in GridScores } \cup { << >>, << Pred(Cat, One) >> }

\* EXIF block, JPEG re-save and face, as the heuristics find them.
ForensicProfiles ==
    { << "none", TRUE, ELA_THRESHOLD, TRUE >>,
      << "edited", TRUE, ELA_THRESHOLD + 1, FALSE >>,
      << "plain", FALSE, 0, TRUE >>,
      << "unparsable", TRUE, 0, FALSE >> }

Uploads ==
    { ImageFile(a, b, f[1], f[2], f[3], f[4]) :
        a \in ModelOutputs, b \in ModelOutputs, f \in ForensicProfiles }
    \cup { CorruptFile }

ImageA == ImageFile(TwoClass(Nine + 1), TwoClass(1), "none", TRUE, 0, TRUE)
ImageB == ImageFile(TwoClass(1), TwoClass(Scale \div 5), "plain", TRUE, 0, FALSE)

ConcUploads == { ImageA, ImageB, CorruptFile }

NormLabels == { Fake, << "a","i" >>, Real, << "h","u","m","a","n" >>, Cat }
NormScores == { 0, 2 * Res, One }

RECURSIVE SeqsUpTo(_, _)
SeqsUpTo(S, n) ==
    IF n = 0 THEN { << >> }
    ELSE LET shorter == SeqsUpTo(S, n - 1)
         IN  shorter \cup { Append(q, x) : q \in shorter, x \in S }

PredictionInputs ==
    SeqsUpTo({ Pred(l, s) : l \in NormLabels, s \in NormScores }, MaxPreds)

\* ------------------------------------------------------------------- Init

Unbound == << >>

InitModule ==
    /\ main_pc = "load_swap"
    /\ detector_swap = "unbound"
    /\ detector_gen = "unbound"
    /\ load_failed = "none"
    /\ MEDIAPIPE_AVAILABLE \in BOOLEAN

InitRequests ==
    /\ fs = [p \in TempPaths |-> NoFile]
    /\ pc = [r \in Req |-> "idle"]
    /\ filename = [r \in Req |-> "a.png"]
    /\ upload = [r \in Req |-> NoFile]
    /\ created = [r \in Req |-> FALSE]
    /\ image = [r \in Req |-> NoFile]
    /\ preds_swap = [r \in Req |-> Unbound]
    /\ preds_gen = [r \in Req |-> Unbound]
    /\ score_swap = [r \in Req |-> NoScore]
    /\ score_gen = [r \in Req |-> NoScore]
    /\ prism_logs = [r \in Req |-> << >>]
    /\ final_score = [r \in Req |-> NoScore]
    /\ verdict = [r \in Req |-> "NONE"]
    /\ display_score = [r \in Req |-> NoScore]
    /\ report_lines = [r \in Req |-> << >>]
    /\ response = [r \in Req |-> NoResponse]
    /\ outcome = [r \in Req |-> "pending"]

Init ==
    /\ InitModule
    /\ InitRequests
    /\ predictions = << >>
    /\ norm_pc = "idle"
    /\ norm_result = NoScore

InitNorm ==
    /\ InitModule
    /\ InitRequests
    /\ predictions \in PredictionInputs
    /\ norm_pc = "call"
    /\ norm_result = NoScore

\* ------------------------------------------------ loading the pipelines

\* detector_swap = pipeline(...) inside the try; a raise goes to the except,
\* which sets both detectors to None and skips the second load.
LoadSwap ==
    /\ main_pc = "load_swap"
    /\ \E ok \in BOOLEAN :
         IF ok
         THEN /\ detector_swap' = "pipeline"
              /\ main_pc' = "load_gen"
              /\ UNCHANGED << detector_gen, load_failed >>
         ELSE /\ detector_swap' = "None"
              /\ detector_gen' = "None"
              /\ load_failed' = "swap"
              /\ main_pc' = "serving"
    /\ UNCHANGED << MEDIAPIPE_AVAILABLE, fs, requestVars, normVars >>

\* detector_gen = pipeline(...) inside the same try.
LoadGen ==
    /\ main_pc = "load_gen"
    /\ \E ok \in BOOLEAN :
         IF ok
         THEN /\ detector_gen' = "pipeline"
              /\ UNCHANGED << detector_swap, load_failed >>
         ELSE /\ detector_swap' = "None"
              /\ detector_gen' = "None"
              /\ load_failed' = "gen"
    /\ main_pc' = "serving"
    /\ UNCHANGED << MEDIAPIPE_AVAILABLE, fs, requestVars, normVars >>

\* ------------------------------------------------------------- scan_image

\* return 0.5 for each score when a detector is None  # Fail safe
FailSafeScore == Half

\* detector_swap(image), detector_gen(image)
SwapPipeline(img) == img.swap
GenPipeline(img) == img.gen

\* What a path holds after copyfileobj wrote data through a handle opened
\* with "wb".  The open truncated the file; if the path was unlinked since,
\* the bytes go to the orphaned file and the path stays absent; if another
\* handle wrote since, the two copies overlap from offset 0.
WriteResults(cur, data) ==
    IF cur = NoFile THEN { NoFile }
    ELSE IF cur = EmptyFile THEN { data }
    ELSE { data, MixedFile }

\* A request arrives: the handler is entered with its UploadFile.
Receive(r, names, uploads) ==
    /\ main_pc = "serving"
    /\ pc[r] = "idle"
    /\ \E n \in names, u \in uploads :
         /\ filename' = [filename EXCEPT ![r] = n]
         /\ upload' = [upload EXCEPT ![r] = u]
    /\ pc' = [pc EXCEPT ![r] = "save_open"]
    /\ UNCHANGED << moduleVars, fs, created, localVars, response, outcome, normVars >>

\* The invocation is over: its frame and its response are gone.
Finish(r) ==
    /\ pc[r] = "done"
    /\ pc' = [pc EXCEPT ![r] = "idle"]
    /\ filename' = [filename EXCEPT ![r] = "a.png"]
    /\ upload' = [upload EXCEPT ![r] = NoFile]
    /\ created' = [created EXCEPT ![r] = FALSE]
    /\ image' = [image EXCEPT ![r] = NoFile]
    /\ preds_swap' = [preds_swap EXCEPT ![r] = Unbound]
    /\ preds_gen' = [preds_gen EXCEPT ![r] = Unbound]
    /\ score_swap' = [score_swap EXCEPT ![r] = NoScore]
    /\ score_gen' = [score_gen EXCEPT ![r] = NoScore]
    /\ prism_logs' = [prism_logs EXCEPT ![r] = << >>]
    /\ final_score' = [final_score EXCEPT ![r] = NoScore]
    /\ verdict' = [verdict EXCEPT ![r] = "NONE"]
    /\ display_score' = [display_score EXCEPT ![r] = NoScore]
    /\ report_lines' = [report_lines EXCEPT ![r] = << >>]
    /\ response' = [response EXCEPT ![r] = NoResponse]
    /\ outcome' = [outcome EXCEPT ![r] = "pending"]
    /\ UNCHANGED << moduleVars, fs, normVars >>

\* An exception leaves the handler: no response is returned.
Propagate(r) ==
    /\ outcome' = [outcome EXCEPT ![r] = "raised"]
    /\ pc' = [pc EXCEPT ![r] = "done"]

\* except Exception as e: return {"verdict": "ERROR", "analysis": str(e)};
\* the finally clause runs next.
Except(r, message) ==
    /\ response' = [response EXCEPT ![r] = ErrorResponse(message)]
    /\ pc' = [pc EXCEPT ![r] = "finally"]

\* with open(temp_filename, "wb") as buffer -- before the try.
SaveOpen(r) ==
    /\ pc[r] = "save_open"
    /\ \E ok \in BOOLEAN :
         IF ok
         THEN /\ fs' = [fs EXCEPT ![temp_filename(filename[r])] = EmptyFile]
              /\ created' = [created EXCEPT ![r] = TRUE]
              /\ pc' = [pc EXCEPT ![r] = "save_copy"]
              /\ UNCHANGED outcome
         ELSE /\ Propagate(r)
              /\ UNCHANGED << fs, created >>
    /\ UNCHANGED << moduleVars, filename, upload, localVars, response, normVars >>

\* shutil.copyfileobj(file.file, buffer) -- before the try.
SaveCopy(r) ==
    /\ pc[r] = "save_copy"
    /\ LET path == temp_filename(filename[r])
       IN  \E ok \in BOOLEAN :
             IF ok
             THEN /\ \E c \in WriteResults(fs[path], upload[r]) :
                       fs' = [fs EXCEPT ![path] = c]
                  /\ pc' = [pc EXCEPT ![r] = "load_image"]
                  /\ UNCHANGED outcome
             ELSE /\ fs' = [fs EXCEPT ![path] =
                                IF fs[path] = NoFile THEN NoFile ELSE PartialFile]
                  /\ Propagate(r)
    /\ UNCHANGED << moduleVars, filename, upload, created, localVars, response, normVars >>

\* image = Image.open(temp_filename)
LoadImage(r) ==
    /\ pc[r] = "load_image"
    /\ LET cur == fs[temp_filename(filename[r])]
       IN  IF IsImage(cur)
           THEN /\ image' = [image EXCEPT ![r] = cur]
                /\ pc' = [pc EXCEPT ![r] = "classify"]
                /\ UNCHANGED response
           ELSE /\ Except(r, IF cur = NoFile THEN "FileNotFoundError"
                                             ELSE "UnidentifiedImageError")
                /\ UNCHANGED image
    /\ UNCHANGED << moduleVars, fs, filename, upload, created, preds_swap, preds_gen,
                    score_swap, score_gen, prism_logs, final_score, verdict,
                    display_score, report_lines, outcome, normVars >>

\* PHASE 1: both pipelines and get_fake_probability, or the fail-safe scores.
\* fault is the pipeline call that raises, if one does.
Classify(r) ==
    /\ pc[r] = "classify"
    /\ IF detector_swap = "pipeline" /\ detector_gen = "pipeline"
       THEN \E fault \in { "none", "swap", "gen" } :
              IF fault = "none"
              THEN /\ preds_swap' = [preds_swap EXCEPT ![r] = SwapPipeline(image[r])]
                   /\ preds_gen' = [preds_gen EXCEPT ![r] = GenPipeline(image[r])]
                   /\ score_swap' = [score_swap EXCEPT ![r] =
                                        get_fake_probability(SwapPipeline(image[r]))]
                   /\ score_gen' = [score_gen EXCEPT ![r] =
                                        get_fake_probability(GenPipeline(image[r]))]
                   /\ pc' = [pc EXCEPT ![r] = "prism"]
                   /\ UNCHANGED response
              ELSE /\ preds_swap' = [preds_swap EXCEPT ![r] =
                                        IF fault = "gen" THEN SwapPipeline(image[r])
                                                         ELSE Unbound]
                   /\ Except(r, "InferenceError")
                   /\ UNCHANGED << preds_gen, score_swap, score_gen >>
       ELSE /\ score_swap' = [score_swap EXCEPT ![r] = FailSafeScore]
            /\ score_gen' = [score_gen EXCEPT ![r] = FailSafeScore]
            /\ pc' = [pc EXCEPT ![r] = "prism"]
            /\ UNCHANGED << preds_swap, preds_gen, response >>
    /\ UNCHANGED << moduleVars, fs, filename, upload, created, image, prism_logs,
                    final_score, verdict, display_score, report_lines, outcome, normVars >>

\* PHASE 2: the three heuristics, the last one reading temp_filename again.
\* (The second scan_ela call of PHASE 3 changes nothing.)
Prism(r) ==
    /\ pc[r] = "prism"
    /\ \E engine \in { "mediapipe", "opencv", "none" } :
         prism_logs' = [prism_logs EXCEPT ![r] =
             scan_metadata(image[r]) \o scan_ela(image[r]) \o
             scan_face_geometry(MEDIAPIPE_AVAILABLE, engine,
                                fs[temp_filename(filename[r])])]
    /\ pc' = [pc EXCEPT ![r] = "verdict"]
    /\ UNCHANGED << moduleVars, fs, filename, upload, created, image, preds_swap,
                    preds_gen, score_swap, score_gen, final_score, verdict,
                    display_score, report_lines, response, outcome, normVars >>

\* PHASE 3: final_score, verdict, display_score.
Verdict(r) ==
    /\ pc[r] = "verdict"
    /\ LET final == EnsembleScore(score_swap[r], score_gen[r])
           v == VerdictOf(final)
       IN  /\ final_score' = [final_score EXCEPT ![r] = final]
           /\ verdict' = [verdict EXCEPT ![r] = v]
           /\ display_score' = [display_score EXCEPT ![r] = DisplayScore(final, v)]
    /\ pc' = [pc EXCEPT ![r] = "report"]
    /\ UNCHANGED << moduleVars, fs, filename, upload, created, image, preds_swap,
                    preds_gen, score_swap, score_gen, prism_logs, report_lines,
                    response, outcome, normVars >>

\* PHASE 4: the report and the return statement; the finally clause runs next.
Report(r) ==
    /\ pc[r] = "report"
    /\ LET lines == Bulleted(Headlines(verdict[r], score_swap[r], score_gen[r]))
                    \o Bulleted(prism_logs[r])
       IN  /\ report_lines' = [report_lines EXCEPT ![r] = lines]
           /\ response' = [response EXCEPT ![r] =
                              ScanResponse(verdict[r], display_score[r], lines)]
    /\ pc' = [pc EXCEPT ![r] = "finally"]
    /\ UNCHANGED << moduleVars, fs, filename, upload, created, image, preds_swap,
                    preds_gen, score_swap, score_gen, prism_logs, final_score,
                    verdict, display_score, outcome, normVars >>

\* finally: if os.path.exists(temp_filename)
FinallyExists(r) ==
    /\ pc[r] = "finally"
    /\ IF fs[temp_filename(filename[r])] # NoFile
       THEN /\ pc' = [pc EXCEPT ![r] = "remove"]
            /\ UNCHANGED outcome
       ELSE /\ pc' = [pc EXCEPT ![r] = "done"]
            /\ outcome' = [outcome EXCEPT ![r] = "returned"]
    /\ UNCHANGED << moduleVars, fs, filename, upload, created, localVars, response,
                    normVars >>

\* finally: os.remove(temp_filename); it raises FileNotFoundError when the
\* path went away after the exists test, and that replaces the return.
FinallyRemove(r) ==
    /\ pc[r] = "remove"
    /\ LET path == temp_filename(filename[r])
       IN  IF fs[path] # NoFile
           THEN /\ fs' = [fs EXCEPT ![path] = NoFile]
                /\ pc' = [pc EXCEPT ![r] = "done"]
                /\ outcome' = [outcome EXCEPT ![r] = "returned"]
           ELSE /\ Propagate(r)
                /\ UNCHANGED fs
    /\ UNCHANGED << moduleVars, filename, upload, created, localVars, response, normVars >>

\* The steps of one invocation after it was received.
Handle(r) ==
    \/ SaveOpen(r)
    \/ SaveCopy(r)
    \/ LoadImage(r)
    \/ Classify(r)
    \/ Prism(r)
    \/ Verdict(r)
    \/ Report(r)
    \/ FinallyExists(r)
    \/ FinallyRemove(r)
    \/ Finish(r)

\* --------------------------------------- get_fake_probability on its own

Normalize ==
    /\ norm_pc = "call"
    /\ norm_result' = get_fake_probability(predictions)
    /\ norm_pc' = "returned"
    /\ UNCHANGED << moduleVars, fs, requestVars, predictions >>

\* --------------------------------------------------------- specifications

\* One worker, one event loop: scan_image has no await, so one invocation
\* runs to its end before the next is entered.
Next ==
    \/ LoadSwap
    \/ LoadGen
    \/ Receive(1, Filenames, Uploads)
    \/ Handle(1)

Spec == Init /\ [][Next]_vars

\* Several worker processes serving the same working directory: the steps
\* of their invocations interleave.
NextConc ==
    \/ LoadSwap
    \/ LoadGen
    \/ \E r \in Req : Receive(r, Filenames, ConcUploads)
    \/ \E r \in Req : Handle(r)

SpecConc == Init /\ [][NextConc]_vars

\* get_fake_probability applied to every bounded prediction sequence.
NextNorm == Normalize

SpecNorm == InitNorm /\ [][NextNorm]_vars

\* ------------------------------------------------ claims: the normaliser

FakeAt(preds) == { i \in 1..Len(preds) : lower(preds[i].label) \in FAKE_LABELS }
RealAt(preds) == { i \in 1..Len(preds) : lower(preds[i].label) \in REAL_LABELS }
LastOf(S) == CHOOSE i \in S : \A j \in S : j <= i

\* C1 as stated: whenever the predictions hold a fake-set pair with a score
\* s > 0, get_fake_probability returns s, whatever the other pairs are.
C1_AnyFakePairIsReturned ==
    norm_pc = "returned" =>
        \A i \in FakeAt(predictions) :
            predictions[i].score > 0 => norm_result = predictions[i].score

\* C1 amended: when the last fake-set pair of the predictions has a score
\* s > 0, get_fake_probability returns s, whatever the other pairs are and
\* wherever they stand.
C1_LastFakePairIsReturned ==
    norm_pc = "returned" /\ FakeAt(predictions) # {} =>
        LET s == predictions[LastOf(FakeAt(predictions))].score
        IN  s > 0 => norm_result = s

\* Two fake-set pairs with different scores and a real-set pair between
\* them; the last fake-set score came back.
C1_Witness ==
    /\ norm_pc = "returned"
    /\ Len(predictions) = 3
    /\ FakeAt(predictions) = { 1, 3 }
    /\ RealAt(predictions) = { 2 }
    /\ predictions[1].score > predictions[3].score
    /\ predictions[3].score > 0
    /\ predictions[2].score > 0
    /\ norm_result = predictions[3].score

\* C2 as stated: when the one recognised pair of the predictions is a
\* real-set pair with score s, get_fake_probability returns 1 - s, for s = 0
\* and s = 1 too.
C2_RealOnlyIsComplement ==
    norm_pc = "returned" /\ FakeAt(predictions) = {}
                         /\ Cardinality(RealAt(predictions)) = 1 =>
        norm_result = One - predictions[LastOf(RealAt(predictions))].score

\* C2 amended: when the predictions hold no fake-set pair and their last
\* real-set pair has score s, get_fake_probability returns 1 - s for
\* 0 < s <= 1, and the fallback 0.5 for s = 0.
C2_PositiveRealIsComplement ==
    norm_pc = "returned" /\ FakeAt(predictions) = {} /\ RealAt(predictions) # {} =>
        LET s == predictions[LastOf(RealAt(predictions))].score
        IN  /\ s > 0 => norm_result = One - s
            /\ s = 0 => 2 * norm_result = One

\* A real-set pair with a score strictly between 0 and 1 among unknown
\* pairs, and its complement came back.
C2_Witness ==
    /\ norm_pc = "returned"
    /\ FakeAt(predictions) = {}
    /\ Cardinality(RealAt(predictions)) = 1
    /\ Len(predictions) > 1
    /\ LET s == predictions[LastOf(RealAt(predictions))].score
       IN  s > 0 /\ s < One /\ norm_result = One - s /\ norm_result # s

\* C10: for predictions with no recognised label, the empty sequence
\* included, get_fake_probability returns 0.5.
C10_UnknownIsHalf ==
    norm_pc = "returned" /\ FakeAt(predictions) = {} /\ RealAt(predictions) = {} =>
        2 * norm_result = One

\* Unknown labels only, more than one of them, and 0.5 came back.
C10_Witness ==
    /\ norm_pc = "returned"
    /\ Len(predictions) >= 2
    /\ FakeAt(predictions) = {} /\ RealAt(predictions) = {}
    /\ 2 * norm_result = One

\* ---------------------------------------------------- claims: the verdict

\* The invocation computed its verdict (PHASE 3 is behind it).
Judged(r) == pc[r] \in { "report", "finally", "remove", "done" } /\ verdict[r] # "NONE"

\* The invocation returned the response of a scan that went through.
Successful(r) ==
    pc[r] = "done" /\ outcome[r] = "returned" /\ response[r].verdict # "ERROR"

\* C3: if max(score_swap, score_gen) > 0.9 then final_score is that maximum
\* times 100, otherwise (0.9 itself included) it is the equal-weight
\* average times 100.
C3_OverrideOrBlend ==
    \A r \in Req : Judged(r) =>
        LET m == Max2(score_swap[r], score_gen[r])
        IN  IF 10 * m > 9 * Scale
            THEN final_score[r] * Scale = m * (2 * Scale)
            ELSE 2 * final_score[r] * Scale =
                     (score_swap[r] + score_gen[r]) * (2 * Scale)

\* One score above 0.9, the other below it: the maximum was taken, and it is
\* not what the average would have been.
C3_Witness ==
    \E r \in Req :
        /\ Judged(r)
        /\ 10 * score_swap[r] > 9 * Scale
        /\ score_gen[r] < score_swap[r]
        /\ final_score[r] = 2 * score_swap[r]
        /\ final_score[r] # score_swap[r] + score_gen[r]

\* C4: a scan that went through returns FAKE if and only if its final_score
\* is above 50, and REAL otherwise; exactly 50 gives REAL.
C4_FakeIffAboveFifty ==
    \A r \in Req : Successful(r) =>
        /\ response[r].verdict \in { "FAKE", "REAL" }
        /\ response[r].verdict = "FAKE" <=> final_score[r] * 100 > 50 * (2 * Scale)

\* Scores 0.6 and 0.4: final_score is exactly 50 and the verdict is REAL.
C4_Witness ==
    \E r \in Req :
        /\ Successful(r)
        /\ 10 * score_swap[r] = 6 * Scale
        /\ 10 * score_gen[r] = 4 * Scale
        /\ final_score[r] * 100 = 50 * (2 * Scale)
        /\ response[r].verdict = "REAL"

\* C5: for a scan that went through, display_score is final_score under
\* FAKE and 100 - final_score under REAL, the returned confidence is that
\* number printed with two decimals (within 0.005 of it), and the returned
\* verdict is the one final_score decided.
C5_DisplayFollowsVerdict ==
    \A r \in Req : Successful(r) =>
        LET shown == IF response[r].verdict = "FAKE"
                     THEN final_score[r]
                     ELSE 2 * Scale - final_score[r]
            gap == response[r].confidence_score * (2 * Scale) - shown * 10000
        IN  /\ display_score[r] = shown
            /\ gap <= Scale /\ 0 - gap <= Scale
            /\ response[r].verdict = verdict[r]
            /\ response[r].verdict = "FAKE" <=> final_score[r] > Scale

\* A REAL verdict on a final_score strictly between 0 and 50 that two
\* decimals do not print exactly: the complement is shown.
C5_Witness ==
    \E r \in Req :
        /\ Successful(r)
        /\ response[r].verdict = "REAL"
        /\ final_score[r] > 0 /\ final_score[r] < Scale
        /\ display_score[r] = 2 * Scale - final_score[r]
        /\ (display_score[r] * 10000) % (2 * Scale) # 0

\* ------------------------------------------- claims: failures and files

\* C6: every invocation ends by returning a response whose verdict is FAKE,
\* REAL or ERROR; no exception leaves the handler, whichever step failed.
C6_AlwaysReturnsAVerdict ==
    \A r \in Req : pc[r] = "done" =>
        /\ outcome[r] = "returned"
        /\ response[r].verdict \in { "FAKE", "REAL", "ERROR" }

\* C7: when an invocation is over, the temporary file it created is gone,
\* also when the exception came while the upload was being written.
C7_TempFileRemovedOnEveryExit ==
    \A r \in Req : pc[r] = "done" /\ created[r] =>
        fs[temp_filename(filename[r])] = NoFile

\* The invocation holds a saved copy: the upload was written and the finally
\* clause has not removed it yet.
HoldsCopy(r) ==
    pc[r] \in { "load_image", "classify", "prism", "verdict", "report", "finally", "remove" }

\* C8: invocations that overlap do not touch each other's temporary file:
\* from the end of its copy to its own removal an invocation's path holds
\* the bytes it uploaded, and the image it decoded is its own upload.
C8_TempFileIsPrivate ==
    \A r \in Req :
        /\ HoldsCopy(r) => fs[temp_filename(filename[r])] = upload[r]
        /\ IsImage(image[r]) => image[r] = upload[r]

\* C9: when exactly one pipeline failed to load, a scan still takes the
\* other pipeline's score from that pipeline's predictions for the image;
\* only the failed pipeline's score is the neutral 0.5.
C9_OneFailureDegradesOneSignal ==
    \A r \in Req : Judged(r) =>
        /\ load_failed = "gen" =>
               score_swap[r] = get_fake_probability(SwapPipeline(image[r]))
        /\ load_failed = "swap" =>
               score_gen[r] = get_fake_probability(GenPipeline(image[r]))

\* ----------------------------------------------------- claims: the report

\* The lines of the analysis that stand before the forensic lines.
HeadlineSection(r) ==
    SubSeq(response[r].analysis, 1, Len(response[r].analysis) - Len(prism_logs[r]))

\* The lines of the analysis from the first forensic line on.
ForensicSection(r) ==
    SubSeq(response[r].analysis,
           Len(response[r].analysis) - Len(prism_logs[r]) + 1,
           Len(response[r].analysis))

\* The number of scores above 0.9.
HighCount(r) ==
    (IF 10 * score_swap[r] > 9 * Scale THEN 1 ELSE 0)
    + (IF 10 * score_gen[r] > 9 * Scale THEN 1 ELSE 0)

\* C11: the analysis of a scan that went through begins with a headline
\* section that is not empty and goes on with every forensic log line in
\* the order received; under FAKE there is one headline per score above
\* 0.9, or one generic line when no score is above 0.9; under REAL there is
\* exactly one line.
C11_HeadlinesThenForensics ==
    \A r \in Req : Successful(r) =>
        /\ Len(response[r].analysis) >= Len(prism_logs[r])
        /\ HeadlineSection(r) # << >>
        /\ Len(HeadlineSection(r)) =
               IF response[r].verdict = "FAKE" /\ HighCount(r) > 0
               THEN HighCount(r)
               ELSE 1
        /\ ForensicSection(r) = [i \in 1..Len(prism_logs[r]) |-> << "bullet", prism_logs[r][i] >>]

====
